---- MODULE Spec2Model ----
(***************************************************************************)
(* Patch Promotion Engine: the lifecycle state machine (app/state.py), the *)
(* synthetic snapshot generator (app/services/synthetic_data.py), the      *)
(* evidence diff engine (app/services/diff.py), the change-report composer *)
(* (app/services/cr_text.py) and the operations of app/web/routes.py that  *)
(* drive them on one PatchEvent.                                           *)
(***************************************************************************)
EXTENDS Integers, Sequences, FiniteSets, TLC

VARIABLES
    current_state_code,      \* PatchEvent.current_state_code
    dev_evidence_available,  \* PatchEvent.dev_evidence_available
    stage_cr_summary,        \* PatchEvent.stage_cr_summary: <<>> is NULL, <<text>> otherwise
    prod_cr_summary,         \* PatchEvent.prod_cr_summary:  <<>> is NULL, <<text>> otherwise
    snapshots,               \* the event's rows of scan_snapshots, each owning its vulnerabilities
    response,                \* what the last operation reported to its caller
    in_flight,               \* per caller, the generate_before_snapshot call it is inside of, if any
    exclusive_scope          \* whether the callers run their operations on the event one at a time

vars == <<current_state_code, dev_evidence_available, stage_cr_summary,
          prod_cr_summary, snapshots, response, in_flight, exclusive_scope>>

event == <<current_state_code, dev_evidence_available, stage_cr_summary,
           prod_cr_summary>>

concurrency == <<in_flight, exclusive_scope>>

----------------------------------------------------------------------------
(* Bounds of the model. *)

\* vulnerability_count of generate_before_snapshot ranges over 0..MaxCount.
MaxCount == 2

\* Primary keys of scan_snapshots range over 1..MaxSnapshotId.
MaxSnapshotId == 3

\* The callers that can be inside an operation on the event at once.
Callers == {"caller1", "caller2"}

\* No caller is inside a call.
Idle == [caller \in Callers |-> <<>>]

----------------------------------------------------------------------------
(* app/state.py: the seven codes. *)

DEV_EVIDENCE_CAPTURED == "DEV_EVIDENCE_CAPTURED"
DEV_VERIFIED == "DEV_VERIFIED"
STAGE_CR_READY == "STAGE_CR_READY"
STAGE_PATCHED == "STAGE_PATCHED"
PROD_CR_READY == "PROD_CR_READY"
PROD_PATCHED == "PROD_PATCHED"
CLOSED == "CLOSED"

Codes == {DEV_EVIDENCE_CAPTURED, DEV_VERIFIED, STAGE_CR_READY, STAGE_PATCHED,
          PROD_CR_READY, PROD_PATCHED, CLOSED}

\* A stored code that is none of the seven, and the missing (empty) code.
UNRECOGNIZED == "UNRECOGNIZED"
MISSING == ""

\* Every value a stored current_state_code or a submitted target_state can take.
StoredCodes == Codes \cup {UNRECOGNIZED, MISSING}

has_dev_evidence(flag) == flag

DevEvidenceCapturedState_allowed_transitions(flag) == <<DEV_VERIFIED>>

\* DEV_VERIFIED letting the event on without evidence.
DevVerifiedState_unguarded(flag) == <<STAGE_CR_READY>>

DevVerifiedState_allowed_transitions(flag) ==
    IF ~has_dev_evidence(flag) THEN <<>> ELSE <<STAGE_CR_READY>>

StageCrReadyState_allowed_transitions(flag) ==
    IF ~has_dev_evidence(flag) THEN <<>> ELSE <<STAGE_PATCHED>>

\* StagePatchedState offering a second way forward.
StagePatchedState_branching(flag) ==
    IF ~has_dev_evidence(flag) THEN <<>> ELSE <<PROD_CR_READY, PROD_PATCHED>>

StagePatchedState_allowed_transitions(flag) ==
    IF ~has_dev_evidence(flag) THEN <<>> ELSE <<PROD_CR_READY>>

\* PROD_CR_READY as a dead end.
ProdCrReadyState_dead_end(flag) == <<>>

ProdCrReadyState_allowed_transitions(flag) ==
    IF ~has_dev_evidence(flag) THEN <<>> ELSE <<PROD_PATCHED>>

ProdPatchedState_allowed_transitions(flag) == <<CLOSED>>

\* ClosedState letting the event be reopened.
ClosedState_reopening(flag) == <<DEV_EVIDENCE_CAPTURED>>

ClosedState_allowed_transitions(flag) == <<>>

\* PatchState.allowed_transitions, dispatched on the class of the state object
\* (named by the code its constructor sets).
allowed_transitions(state, flag) ==
    CASE state = DEV_EVIDENCE_CAPTURED -> DevEvidenceCapturedState_allowed_transitions(flag)
      [] state = DEV_VERIFIED -> DevVerifiedState_allowed_transitions(flag)
      [] state = STAGE_CR_READY -> StageCrReadyState_allowed_transitions(flag)
      [] state = STAGE_PATCHED -> StagePatchedState_allowed_transitions(flag)
      [] state = PROD_CR_READY -> ProdCrReadyState_allowed_transitions(flag)
      [] state = PROD_PATCHED -> ProdPatchedState_allowed_transitions(flag)
      [] state = CLOSED -> ClosedState_allowed_transitions(flag)

Range(seq) == {seq[i] : i \in DOMAIN seq}

can_transition_to(state, target_code, flag) ==
    target_code \in Range(allowed_transitions(state, flag))

\* The state object for a stored code: a missing or unrecognized code gets
\* DevEvidenceCapturedState.
get_state_for_event(code) ==
    LET state_code == IF code = MISSING THEN DEV_EVIDENCE_CAPTURED ELSE code
    IN  IF state_code \in Codes THEN state_code ELSE DEV_EVIDENCE_CAPTURED

\* The messages of the two ValueErrors transition_patch_event raises.
CannotCloseMessage == <<"Cannot close patch event unless PROD is patched.">>

NotAllowedMessage(state, target_code) ==
    <<"Transition from {0} to {1} is not allowed.", state, target_code>>

\* transition_patch_event with the close rule comparing against the wrong code.
transition_patch_event_close_from_cr_ready(code, flag, target_code) ==
    LET current_state == get_state_for_event(code)
    IN  IF target_code = CLOSED /\ code # PROD_CR_READY
        THEN [raised |-> TRUE, message |-> CannotCloseMessage,
              current_state_code |-> code, on_enter |-> <<>>]
        ELSE IF ~can_transition_to(current_state, target_code, flag)
        THEN [raised |-> TRUE,
              message |-> NotAllowedMessage(current_state, target_code),
              current_state_code |-> code, on_enter |-> <<>>]
        ELSE [raised |-> FALSE, message |-> <<>>,
              current_state_code |-> target_code,
              on_enter |-> <<current_state>>]

\* transition_patch_event without the check of the per-state table.
transition_patch_event_unchecked(code, flag, target_code) ==
    LET current_state == get_state_for_event(code)
    IN  IF target_code = CLOSED /\ code # PROD_PATCHED
        THEN [raised |-> TRUE, message |-> CannotCloseMessage,
              current_state_code |-> code, on_enter |-> <<>>]
        ELSE [raised |-> FALSE, message |-> <<>>,
              current_state_code |-> target_code,
              on_enter |-> <<current_state>>]

\* transition_patch_event on an event holding (code, flag): whether it raised,
\* the ValueError's message, event.current_state_code as the call leaves it in
\* memory, and the state objects whose on_enter hook it invoked, in order.
transition_patch_event(code, flag, target_code) ==
    LET current_state == get_state_for_event(code)
    IN  IF target_code = CLOSED /\ code # PROD_PATCHED
        THEN [raised |-> TRUE, message |-> CannotCloseMessage,
              current_state_code |-> code, on_enter |-> <<>>]
        ELSE IF ~can_transition_to(current_state, target_code, flag)
        THEN [raised |-> TRUE,
              message |-> NotAllowedMessage(current_state, target_code),
              current_state_code |-> code, on_enter |-> <<>>]
        ELSE [raised |-> FALSE, message |-> <<>>,
              current_state_code |-> target_code,
              on_enter |-> <<current_state>>]

----------------------------------------------------------------------------
(* app/models.py: the enumerations. *)

BEFORE == "BEFORE"
AFTER == "AFTER"

CRITICAL == "CRITICAL"
HIGH == "HIGH"
MEDIUM == "MEDIUM"
LOW == "LOW"

\* Severity, in the order the enumeration declares its members.
SeverityOrder == <<CRITICAL, HIGH, MEDIUM, LOW>>
Severity == Range(SeverityOrder)

----------------------------------------------------------------------------
(* app/services/diff.py *)

\* The ids of a set of snapshot rows, ascending.
RECURSIVE SortedIds(_)
SortedIds(ids) ==
    IF ids = {} THEN <<>>
    ELSE LET m == CHOOSE i \in ids : \A j \in ids : i <= j
         IN  <<m>> \o SortedIds(ids \ {m})

RECURSIVE Flatten(_)
Flatten(seqs) ==
    IF seqs = <<>> THEN <<>> ELSE Head(seqs) \o Flatten(Tail(seqs))

\* extract_before_after_vulnerabilities: the vulnerabilities of the snapshots
\* of each type, snapshot after snapshot in the order the rows are loaded.
extract_before_after_vulnerabilities(snaps) ==
    [t \in {BEFORE, AFTER} |->
        LET rows == {s \in snaps : s.snapshot_type = t}
            order == SortedIds({s.id : s \in rows})
        IN  Flatten([k \in DOMAIN order |->
                (CHOOSE s \in rows : s.id = order[k]).vulnerabilities])]

\* A diff that compares whole records.
compute_fixed_vulnerabilities_by_record(before_vulnerabilities, after_vulnerabilities) ==
    LET keep(v) == v \notin Range(after_vulnerabilities)
    IN  SelectSeq(before_vulnerabilities, keep)

compute_fixed_vulnerabilities(before_vulnerabilities, after_vulnerabilities) ==
    LET after_ids == {v.synthetic_id : v \in Range(after_vulnerabilities)}
        keep(v) == v.synthetic_id \notin after_ids
    IN  SelectSeq(before_vulnerabilities, keep)

\* The Counter alone: the severities that occur.
count_by_severity_of_present(vulnerabilities) ==
    [severity \in {vulnerabilities[i].severity : i \in DOMAIN vulnerabilities} |->
        Cardinality({i \in DOMAIN vulnerabilities :
                        vulnerabilities[i].severity = severity})]

count_by_severity(vulnerabilities) ==
    [severity \in Severity |->
        Cardinality({i \in DOMAIN vulnerabilities :
                        vulnerabilities[i].severity = severity})]

----------------------------------------------------------------------------
(* app/services/cr_text.py *)

\* str.title() of a severity's value.
Title(severity) ==
    CASE severity = CRITICAL -> "Critical"
      [] severity = HIGH -> "High"
      [] severity = MEDIUM -> "Medium"
      [] severity = LOW -> "Low"

\* The four parts from Low to Critical.
format_severity_counts_ascending(severity_counts) ==
    [k \in DOMAIN SeverityOrder |->
        LET severity == SeverityOrder[Len(SeverityOrder) + 1 - k]
        IN  <<Title(severity),
              IF severity \in DOMAIN severity_counts
              THEN severity_counts[severity] ELSE 0>>]

\* "Critical: n, High: n, Medium: n, Low: n" as its four (label, number) parts.
format_severity_counts(severity_counts) ==
    [k \in DOMAIN SeverityOrder |->
        <<Title(SeverityOrder[k]),
          IF SeverityOrder[k] \in DOMAIN severity_counts
          THEN severity_counts[SeverityOrder[k]] ELSE 0>>]

\* The lines of the report that vary: the promotion, the total and the
\* breakdown (service name, AMI id and patch date never change for an event).
build_stage_cr_text(fixed_vulnerabilities, severity_counts) ==
    [promotion |-> "DEV -> STAGE",
     state |-> "",
     total_fixed |-> Len(fixed_vulnerabilities),
     breakdown |-> format_severity_counts(severity_counts)]

\* The PROD report also prints the event's current lifecycle state.
build_prod_cr_text(code, fixed_vulnerabilities, severity_counts) ==
    [promotion |-> "STAGE -> PROD",
     state |-> code,
     total_fixed |-> Len(fixed_vulnerabilities),
     breakdown |-> format_severity_counts(severity_counts)]

----------------------------------------------------------------------------
(* app/services/synthetic_data.py *)

Min(a, b) == IF a <= b THEN a ELSE b
Max(a, b) == IF a >= b THEN a ELSE b

\* The list _choose_severity draws from with random.choice.
choices == <<CRITICAL, HIGH, HIGH, MEDIUM, MEDIUM, LOW, LOW, LOW>>

\* The severities n successive calls of _choose_severity can return when the
\* random source draws from `drawn' (a subset of choices): every sequence of
\* up to MaxCount draws, a longer one repeating MaxCount draws in order.
SeverityDraws(n, drawn) ==
    IF n <= 0 THEN {<<>>}
    ELSE LET m == Min(n, MaxCount)
         IN  {[i \in 1..n |-> p[((i - 1) % m) + 1]] : p \in [1..m -> drawn]}

\* An identifier that leaves the index out.
synthetic_id_without_index(snapshot_id, index) == <<"VULN", snapshot_id, 0>>

\* f"VULN-{snapshot.id:04d}-{index:04d}": the two numbers, each printed in at
\* least four digits between dashes, so the string determines both.
synthetic_id_of(snapshot_id, index) == <<"VULN", snapshot_id, index>>

\* _build_vulnerability, for the severity _choose_severity returned.  The CVE,
\* plugin id, host and description are free text no operation reads.
build_vulnerability(snapshot_id, index, severity) ==
    [synthetic_id |-> synthetic_id_of(snapshot_id, index), severity |-> severity]

\* A regeneration that discards nothing.
delete_existing_snapshots_keeping(snaps, snapshot_type) == snaps

\* _delete_existing_snapshots: the rows left, the deleted snapshots' own
\* vulnerabilities going with them (cascade="all, delete-orphan").
delete_existing_snapshots(snaps, snapshot_type) ==
    {s \in snaps : s.snapshot_type # snapshot_type}

\* The primary key the database gives a new scan_snapshots row (an integer
\* primary key without a sequence of its own): one above the highest key that
\* remains.  Keys skipped for other events' rows would change no comparison
\* an operation makes: only the order and the equality of keys are read.
NewSnapshotIds(snaps) ==
    {i \in 1..MaxSnapshotId :
        /\ \A s \in snaps : i > s.id
        /\ i = 1 \/ \E s \in snaps : s.id = i - 1}

\* int(total * ratio) for a ratio given in tenths: truncation towards zero.
\* (For total < 45 the float product truncates as the exact one does.)
int_of_product(total, ratio_tenths) ==
    LET x == total * ratio_tenths
    IN  IF x >= 0 THEN x \div 10 ELSE -((-x) \div 10)

min_remaining_of(total, min_remaining_ratio) ==
    Max(1, int_of_product(total, min_remaining_ratio))

max_remaining_of(total, min_remaining_ratio, max_remaining_ratio) ==
    Max(min_remaining_of(total, min_remaining_ratio),
        int_of_product(total, max_remaining_ratio))

\* k draws that can repeat a member.
Samples_with_replacement(n, k) == [1..k -> 1..n]

\* random.sample(population, k): the positions of k distinct members, in the
\* order drawn.
Samples(n, k) ==
    {s \in [1..k -> 1..n] : \A i, j \in 1..k : i # j => s[i] # s[j]}

\* fallback_count of generate_after_snapshot.
fallback_count == 10

\* The defaults of min_remaining_ratio and max_remaining_ratio, in tenths.
default_min_remaining_ratio == 3
default_max_remaining_ratio == 7

\* {}: a mapping without keys.
EmptyDict == [severity \in {} |-> 0]

\* The response of an operation.
Response(op, ok, message) ==
    [op |-> op, ok |-> ok, message |-> message, target |-> "", count |-> 0,
     ratios |-> <<0, 0>>, on_enter |-> <<>>,
     fixed_vulnerabilities |-> <<>>, severity_counts |-> EmptyDict]

\* A regeneration that withdraws the evidence computed from the old rows.
generate_before_snapshot_withdrawing(vulnerability_count, drawn) ==
    LET remaining == delete_existing_snapshots(snapshots, BEFORE)
    IN  \E id \in NewSnapshotIds(remaining) :
        \E sev \in SeverityDraws(vulnerability_count, drawn) :
            /\ snapshots' = remaining \cup
                  {[id |-> id, snapshot_type |-> BEFORE,
                    vulnerabilities |->
                        [index \in 1..vulnerability_count |->
                            build_vulnerability(id, index, sev[index])]]}
            /\ response' =
                  [Response("generate_before", TRUE,
                       <<"Synthetic BEFORE snapshot generated with vulnerabilities.">>)
                   EXCEPT !.count = vulnerability_count]
            /\ dev_evidence_available' = FALSE
            /\ UNCHANGED <<concurrency, current_state_code, stage_cr_summary,
                           prod_cr_summary>>

\* A regeneration that stops after the deletion: the snapshot is inserted
\* only when there was none to delete.
generate_before_snapshot_only_deleting(vulnerability_count, drawn) ==
    LET remaining == delete_existing_snapshots(snapshots, BEFORE)
    IN  /\ IF remaining # snapshots
           THEN snapshots' = remaining
           ELSE \E id \in NewSnapshotIds(remaining) :
                \E sev \in SeverityDraws(vulnerability_count, drawn) :
                   snapshots' = remaining \cup
                      {[id |-> id, snapshot_type |-> BEFORE,
                        vulnerabilities |->
                            [index \in 1..vulnerability_count |->
                                build_vulnerability(id, index, sev[index])]]}
        /\ response' =
              [Response("generate_before", TRUE,
                   <<"Synthetic BEFORE snapshot generated with vulnerabilities.">>)
               EXCEPT !.count = vulnerability_count]
        /\ UNCHANGED <<event, concurrency>>

\* generate_before_snapshot, _choose_severity drawing from `drawn'.
generate_before_snapshot(vulnerability_count, drawn) ==
    LET remaining == delete_existing_snapshots(snapshots, BEFORE)
    IN  \E id \in NewSnapshotIds(remaining) :
        \E sev \in SeverityDraws(vulnerability_count, drawn) :
            /\ snapshots' = remaining \cup
                  {[id |-> id, snapshot_type |-> BEFORE,
                    vulnerabilities |->
                        [index \in 1..vulnerability_count |->
                            build_vulnerability(id, index, sev[index])]]}
            /\ response' =
                  [Response("generate_before", TRUE,
                       <<"Synthetic BEFORE snapshot generated with vulnerabilities.">>)
                   EXCEPT !.count = vulnerability_count]
            /\ UNCHANGED <<event, concurrency>>

\* A call that takes no notice of the callers' exclusive scope.
begin_generate_before_unscoped(caller, vulnerability_count) ==
    /\ in_flight[caller] = <<>>
    /\ in_flight' =
          [in_flight EXCEPT ![caller] =
              <<[existing |->
                    {s.id : s \in snapshots \
                                 delete_existing_snapshots(snapshots, BEFORE)},
                 vulnerability_count |-> vulnerability_count]>>]
    /\ UNCHANGED <<event, snapshots, response, exclusive_scope>>

\* generate_before_snapshot as two steps of a caller's own session.  First
\* _delete_existing_snapshots: the BEFORE rows the query returns are marked
\* for deletion in the session.  Under an exclusive scope a call starts only
\* when no other call on the event is under way; the code takes no lock.
begin_generate_before(caller, vulnerability_count) ==
    /\ in_flight[caller] = <<>>
    /\ exclusive_scope => in_flight = Idle
    /\ in_flight' =
          [in_flight EXCEPT ![caller] =
              <<[existing |->
                    {s.id : s \in snapshots \
                                 delete_existing_snapshots(snapshots, BEFORE)},
                 vulnerability_count |-> vulnerability_count]>>]
    /\ UNCHANGED <<event, snapshots, response, exclusive_scope>>

\* Then flush and commit: the marked rows that are still there are deleted
\* and the new snapshot with its vulnerabilities is inserted.  The key of
\* the new row is allocated before or after the deletion takes effect.
commit_generate_before(caller, drawn) ==
    /\ in_flight[caller] # <<>>
    /\ LET call == in_flight[caller][1]
           remaining == {s \in snapshots : s.id \notin call.existing}
       IN  \E id \in NewSnapshotIds(remaining) \cup NewSnapshotIds(snapshots) :
           \E sev \in SeverityDraws(call.vulnerability_count, drawn) :
               /\ snapshots' = remaining \cup
                     {[id |-> id, snapshot_type |-> BEFORE,
                       vulnerabilities |->
                           [index \in 1..call.vulnerability_count |->
                               build_vulnerability(id, index, sev[index])]]}
               /\ response' =
                     [Response("generate_before", TRUE,
                          <<"Synthetic BEFORE snapshot generated with vulnerabilities.">>)
                      EXCEPT !.count = call.vulnerability_count]
    /\ in_flight' = [in_flight EXCEPT ![caller] = <<>>]
    /\ UNCHANGED <<event, exclusive_scope>>

\* The counts random.randint(min_remaining, max_remaining) can return.
remaining_counts(total, min_remaining_ratio, max_remaining_ratio) ==
    min_remaining_of(total, min_remaining_ratio) ..
        max_remaining_of(total, min_remaining_ratio, max_remaining_ratio)

\* The record the AFTER snapshot gets for a sampled BEFORE record.
carried_over(before_vuln) ==
    [synthetic_id |-> before_vuln.synthetic_id, severity |-> before_vuln.severity]

\* The branch of generate_after_snapshot without usable BEFORE data.
generate_after_fallback(remaining, min_remaining_ratio, max_remaining_ratio, drawn) ==
    \E id \in NewSnapshotIds(remaining) :
    \E sev \in SeverityDraws(fallback_count, drawn) :
        /\ snapshots' = remaining \cup
              {[id |-> id, snapshot_type |-> AFTER,
                vulnerabilities |->
                    [index \in 1..fallback_count |->
                        build_vulnerability(id, index, sev[index])]]}
        /\ response' =
              [Response("generate_after", TRUE,
                   <<"Synthetic AFTER snapshot generated with vulnerabilities.">>)
               EXCEPT !.ratios = <<min_remaining_ratio, max_remaining_ratio>>]

\* The branch that derives the AFTER snapshot from before_snapshot.  A
\* remaining_count above total makes random.sample raise ValueError: the call
\* fails and the unit of work, the delete included, is never committed.
generate_after_derived(remaining, before_snapshot, min_remaining_ratio, max_remaining_ratio) ==
    LET before_vulns == before_snapshot.vulnerabilities
        total == Len(before_vulns)
    IN  \E remaining_count \in
            remaining_counts(total, min_remaining_ratio, max_remaining_ratio) :
        IF remaining_count > total
        THEN /\ snapshots' = snapshots
             /\ response' =
                   [Response("generate_after", FALSE,
                        <<"ValueError: Sample larger than population or is negative">>)
                    EXCEPT !.ratios = <<min_remaining_ratio, max_remaining_ratio>>]
        ELSE \E id \in NewSnapshotIds(remaining) :
             \E remaining_vulns \in Samples(total, remaining_count) :
                /\ snapshots' = remaining \cup
                      {[id |-> id, snapshot_type |-> AFTER,
                        vulnerabilities |->
                            [index \in 1..remaining_count |->
                                carried_over(before_vulns[remaining_vulns[index]])]]}
                /\ response' =
                      [Response("generate_after", TRUE,
                           <<"Synthetic AFTER snapshot generated with vulnerabilities.">>)
                       EXCEPT !.ratios = <<min_remaining_ratio, max_remaining_ratio>>]

\* generate_after_snapshot, _choose_severity drawing from `drawn'.
generate_after_snapshot(min_remaining_ratio, max_remaining_ratio, drawn) ==
    LET remaining == delete_existing_snapshots(snapshots, AFTER)
        before_rows == {s \in remaining : s.snapshot_type = BEFORE}
    IN  /\ IF before_rows = {}
           THEN generate_after_fallback(remaining, min_remaining_ratio,
                                        max_remaining_ratio, drawn)
           ELSE \E before_snapshot \in before_rows :
                   IF before_snapshot.vulnerabilities = <<>>
                   THEN generate_after_fallback(remaining, min_remaining_ratio,
                                                max_remaining_ratio, drawn)
                   ELSE generate_after_derived(remaining, before_snapshot,
                                               min_remaining_ratio,
                                               max_remaining_ratio)
        /\ UNCHANGED <<event, concurrency>>

----------------------------------------------------------------------------
(* app/web/routes.py: the operations on the event. *)

\* compute_evidence switching the flag over.
compute_evidence_toggling ==
    LET split == extract_before_after_vulnerabilities(snapshots)
        before_vulns == split[BEFORE]
        after_vulns == split[AFTER]
    IN  /\ IF before_vulns = <<>> \/ after_vulns = <<>>
           THEN /\ response' = Response("compute_evidence", FALSE,
                      <<"Cannot compute fixed vulnerabilities: synthetic BEFORE and AFTER snapshots are required.">>)
                /\ UNCHANGED dev_evidence_available
           ELSE /\ dev_evidence_available' = ~dev_evidence_available
                /\ response' = Response("compute_evidence", TRUE,
                      <<"DEV evidence computed from synthetic snapshots.">>)
        /\ UNCHANGED <<concurrency, current_state_code, stage_cr_summary,
                       prod_cr_summary, snapshots>>

\* compute_evidence refusing only when both lists are empty.
compute_evidence_with_either ==
    LET split == extract_before_after_vulnerabilities(snapshots)
        before_vulns == split[BEFORE]
        after_vulns == split[AFTER]
    IN  /\ IF before_vulns = <<>> /\ after_vulns = <<>>
           THEN /\ response' = Response("compute_evidence", FALSE,
                      <<"Cannot compute fixed vulnerabilities: synthetic BEFORE and AFTER snapshots are required.">>)
                /\ UNCHANGED dev_evidence_available
           ELSE /\ dev_evidence_available' = TRUE
                /\ response' = Response("compute_evidence", TRUE,
                      <<"DEV evidence computed from synthetic snapshots.">>)
        /\ UNCHANGED <<concurrency, current_state_code, stage_cr_summary, prod_cr_summary,
                       snapshots>>

compute_evidence ==
    LET split == extract_before_after_vulnerabilities(snapshots)
        before_vulns == split[BEFORE]
        after_vulns == split[AFTER]
    IN  /\ IF before_vulns = <<>> \/ after_vulns = <<>>
           THEN /\ response' = Response("compute_evidence", FALSE,
                      <<"Cannot compute fixed vulnerabilities: synthetic BEFORE and AFTER snapshots are required.">>)
                /\ UNCHANGED dev_evidence_available
           ELSE /\ dev_evidence_available' = TRUE
                /\ response' = Response("compute_evidence", TRUE,
                      <<"DEV evidence computed from synthetic snapshots.">>)
        /\ UNCHANGED <<concurrency, current_state_code, stage_cr_summary, prod_cr_summary,
                       snapshots>>

\* generate_stage_cr without the test of dev_evidence_available.
generate_stage_cr_without_evidence ==
    LET split == extract_before_after_vulnerabilities(snapshots)
        before_vulns == split[BEFORE]
        after_vulns == split[AFTER]
        fixed_vulnerabilities ==
            compute_fixed_vulnerabilities(before_vulns, after_vulns)
        severity_counts == count_by_severity(fixed_vulnerabilities)
    IN  /\ IF before_vulns = <<>> \/ after_vulns = <<>>
           THEN /\ response' = Response("generate_stage_cr", FALSE,
                      <<"Synthetic BEFORE and AFTER snapshots are required to build a STAGE CR summary.">>)
                /\ UNCHANGED stage_cr_summary
           ELSE /\ stage_cr_summary' =
                      <<build_stage_cr_text(fixed_vulnerabilities, severity_counts)>>
                /\ response' = Response("generate_stage_cr", TRUE,
                      <<"STAGE CR summary generated from synthetic DEV evidence.">>)
        /\ UNCHANGED <<concurrency, current_state_code, dev_evidence_available,
                       prod_cr_summary, snapshots>>

generate_stage_cr ==
    LET split == extract_before_after_vulnerabilities(snapshots)
        before_vulns == split[BEFORE]
        after_vulns == split[AFTER]
        fixed_vulnerabilities ==
            compute_fixed_vulnerabilities(before_vulns, after_vulns)
        severity_counts == count_by_severity(fixed_vulnerabilities)
    IN  /\ IF ~dev_evidence_available
           THEN /\ response' = Response("generate_stage_cr", FALSE,
                      <<"DEV evidence must be computed before generating a STAGE CR summary.">>)
                /\ UNCHANGED stage_cr_summary
           ELSE IF before_vulns = <<>> \/ after_vulns = <<>>
           THEN /\ response' = Response("generate_stage_cr", FALSE,
                      <<"Synthetic BEFORE and AFTER snapshots are required to build a STAGE CR summary.">>)
                /\ UNCHANGED stage_cr_summary
           ELSE /\ stage_cr_summary' =
                      <<build_stage_cr_text(fixed_vulnerabilities, severity_counts)>>
                /\ response' = Response("generate_stage_cr", TRUE,
                      <<"STAGE CR summary generated from synthetic DEV evidence.">>)
        /\ UNCHANGED <<concurrency, current_state_code, dev_evidence_available,
                       prod_cr_summary, snapshots>>

\* allowed_states opening one state earlier.
allowed_states_from_stage_cr_ready ==
    {STAGE_CR_READY, STAGE_PATCHED, PROD_CR_READY, PROD_PATCHED, CLOSED}

\* allowed_states of generate_prod_cr.
allowed_states == {STAGE_PATCHED, PROD_CR_READY, PROD_PATCHED, CLOSED}

generate_prod_cr ==
    LET split == extract_before_after_vulnerabilities(snapshots)
        before_vulns == split[BEFORE]
        after_vulns == split[AFTER]
        fixed_vulnerabilities ==
            compute_fixed_vulnerabilities(before_vulns, after_vulns)
        severity_counts == count_by_severity(fixed_vulnerabilities)
    IN  /\ IF current_state_code \notin allowed_states
           THEN /\ response' = Response("generate_prod_cr", FALSE,
                      <<"Patch event must be at least in STAGE_PATCHED state before generating a PROD CR summary.">>)
                /\ UNCHANGED prod_cr_summary
           ELSE IF before_vulns = <<>> \/ after_vulns = <<>>
           THEN /\ response' = Response("generate_prod_cr", FALSE,
                      <<"Synthetic BEFORE and AFTER snapshots are required to build a PROD CR summary.">>)
                /\ UNCHANGED prod_cr_summary
           ELSE /\ prod_cr_summary' =
                      <<build_prod_cr_text(current_state_code,
                                           fixed_vulnerabilities, severity_counts)>>
                /\ response' = Response("generate_prod_cr", TRUE,
                      <<"PROD CR summary generated from synthetic evidence.">>)
        /\ UNCHANGED <<concurrency, current_state_code, dev_evidence_available,
                       stage_cr_summary, snapshots>>

\* get_patch_event_detail: the page of the event, which shows the fixed
\* vulnerabilities and their counts once the evidence is there.
get_patch_event_detail ==
    LET split == extract_before_after_vulnerabilities(snapshots)
        before_vulns == split[BEFORE]
        after_vulns == split[AFTER]
        shown == /\ dev_evidence_available
                 /\ before_vulns # <<>>
                 /\ after_vulns # <<>>
        fixed_vulnerabilities ==
            IF shown
            THEN compute_fixed_vulnerabilities(before_vulns, after_vulns)
            ELSE <<>>
        severity_counts ==
            IF shown THEN count_by_severity(fixed_vulnerabilities)
            ELSE EmptyDict
    IN  /\ response' =
              [Response("get_patch_event_detail", TRUE, <<>>)
               EXCEPT !.fixed_vulnerabilities = fixed_vulnerabilities,
                      !.severity_counts = severity_counts]
        /\ UNCHANGED <<event, snapshots, concurrency>>

\* A transition that also withdraws the evidence.
transition_state_resetting_evidence(target_state) ==
    LET result == transition_patch_event(current_state_code,
                                         dev_evidence_available, target_state)
    IN  /\ IF result.raised
           THEN /\ UNCHANGED <<current_state_code, dev_evidence_available>>
                /\ response' =
                      [Response("transition_state", FALSE, result.message)
                       EXCEPT !.target = target_state,
                              !.on_enter = result.on_enter]
           ELSE /\ current_state_code' = result.current_state_code
                /\ dev_evidence_available' = FALSE
                /\ response' =
                      [Response("transition_state", TRUE,
                                <<"State updated to {target_state}.", target_state>>)
                       EXCEPT !.target = target_state,
                              !.on_enter = result.on_enter]
        /\ UNCHANGED <<concurrency, stage_cr_summary, prod_cr_summary, snapshots>>

\* transition_state: a ValueError rolls the unit of work back and its text is
\* the message; otherwise the event is committed as the call left it.
transition_state(target_state) ==
    LET result == transition_patch_event(current_state_code,
                                         dev_evidence_available, target_state)
    IN  /\ IF result.raised
           THEN /\ UNCHANGED current_state_code
                /\ response' =
                      [Response("transition_state", FALSE, result.message)
                       EXCEPT !.target = target_state,
                              !.on_enter = result.on_enter]
           ELSE /\ current_state_code' = result.current_state_code
                /\ response' =
                      [Response("transition_state", TRUE,
                                <<"State updated to {target_state}.", target_state>>)
                       EXCEPT !.target = target_state,
                              !.on_enter = result.on_enter]
        /\ UNCHANGED <<concurrency, dev_evidence_available, stage_cr_summary,
                       prod_cr_summary, snapshots>>

----------------------------------------------------------------------------
(* The specifications. *)

\* The severities the random source draws where the lifecycle is explored,
\* and where the generator and the diff are.
LifecycleDrawn == {LOW}
GeneratorDrawn == {CRITICAL, LOW}

\* The (min_remaining_ratio, max_remaining_ratio) pairs, in tenths, that
\* generate_after_snapshot is called with: the defaults, and for the generator
\* also 0.5 twice, the widest range 0.0 to 1.0, a negative ratio and ratios
\* above 1.
DefaultRatios ==
    {<<default_min_remaining_ratio, default_max_remaining_ratio>>}
GeneratorRatios == DefaultRatios \cup {<<5, 5>>, <<0, 10>>, <<-5, 3>>, <<12, 15>>}

\* create_patch_event: a new event, with the columns' defaults and no snapshot.
Init ==
    /\ current_state_code = DEV_EVIDENCE_CAPTURED
    /\ dev_evidence_available = FALSE
    /\ stage_cr_summary = <<>>
    /\ prod_cr_summary = <<>>
    /\ snapshots = {}
    /\ response = Response("create_patch_event", TRUE, <<>>)
    /\ in_flight = Idle
    /\ exclusive_scope = TRUE

\* An event row as the table can hold it: any stored code with either flag.
InitStored ==
    /\ current_state_code \in StoredCodes
    /\ dev_evidence_available \in BOOLEAN
    /\ stage_cr_summary = <<>>
    /\ prod_cr_summary = <<>>
    /\ snapshots = {}
    /\ response = Response("create_patch_event", TRUE, <<>>)
    /\ in_flight = Idle
    /\ exclusive_scope = TRUE

GenerateBefore(drawn) ==
    \E vulnerability_count \in 0..MaxCount :
        generate_before_snapshot(vulnerability_count, drawn)

GenerateAfter(drawn, ratio_pairs) ==
    \E ratios \in ratio_pairs :
        generate_after_snapshot(ratios[1], ratios[2], drawn)

TransitionState ==
    \E target_state \in StoredCodes : transition_state(target_state)

\* Any sequence of the six operations on the event, one at a time.
Next ==
    \/ GenerateBefore(LifecycleDrawn)
    \/ GenerateAfter(LifecycleDrawn, DefaultRatios)
    \/ compute_evidence
    \/ generate_stage_cr
    \/ generate_prod_cr
    \/ TransitionState

\* The generator and the evidence computed from its snapshots.
NextGenerator ==
    \/ GenerateBefore(GeneratorDrawn)
    \/ GenerateAfter(GeneratorDrawn, GeneratorRatios)
    \/ compute_evidence

\* The synthetic_ids and the records the diff is explored on: rows as the
\* vulnerabilities table can hold them (no column of it is unique).
DiffIds == {synthetic_id_of(1, 1), synthetic_id_of(1, 2)}
BeforeRecords == [synthetic_id : DiffIds, severity : Severity]
AfterRecords == [synthetic_id : DiffIds, severity : {LOW}]
Lists(records) == UNION {[1..n -> records] : n \in 0..MaxCount}

\* An event in STAGE_PATCHED with a BEFORE and an AFTER snapshot of any rows.
InitDiff ==
    /\ current_state_code = STAGE_PATCHED
    /\ dev_evidence_available = FALSE
    /\ stage_cr_summary = <<>>
    /\ prod_cr_summary = <<>>
    /\ \E before_vulns \in Lists(BeforeRecords) :
       \E after_vulns \in Lists(AfterRecords) :
          snapshots =
             {[id |-> 1, snapshot_type |-> BEFORE, vulnerabilities |-> before_vulns],
              [id |-> 2, snapshot_type |-> AFTER, vulnerabilities |-> after_vulns]}
    /\ response = Response("create_patch_event", TRUE, <<>>)
    /\ in_flight = Idle
    /\ exclusive_scope = TRUE

\* The operations that read the diff.
NextDiff ==
    \/ get_patch_event_detail
    \/ compute_evidence
    \/ generate_stage_cr
    \/ generate_prod_cr

\* A new event whose callers do, or do not, take turns.
InitConcurrent ==
    /\ current_state_code = DEV_EVIDENCE_CAPTURED
    /\ dev_evidence_available = FALSE
    /\ stage_cr_summary = <<>>
    /\ prod_cr_summary = <<>>
    /\ snapshots = {}
    /\ response = Response("create_patch_event", TRUE, <<>>)
    /\ in_flight = Idle
    /\ exclusive_scope \in BOOLEAN

BeginGenerateBefore ==
    \E caller \in Callers :
    \E vulnerability_count \in 0..MaxCount :
        begin_generate_before(caller, vulnerability_count)

CommitGenerateBefore ==
    \E caller \in Callers : commit_generate_before(caller, LifecycleDrawn)

\* generate_before calls of the callers, step by step.
NextConcurrent ==
    \/ BeginGenerateBefore
    \/ CommitGenerateBefore

\* The route generate_before: generate_before_snapshot with its default
\* vulnerability_count.  The default is 20; the model keeps the lists within
\* MaxCount records, and the positive counts up to it stand for the default.
generate_before ==
    \E vulnerability_count \in 1..MaxCount :
        generate_before_snapshot(vulnerability_count, LifecycleDrawn)

\* The route without its test for a BEFORE snapshot.
generate_after_unconditional ==
    generate_after_snapshot(default_min_remaining_ratio,
                            default_max_remaining_ratio, LifecycleDrawn)

\* The route generate_after: refused with a message while the event has no
\* BEFORE snapshot, generate_after_snapshot with its default ratios otherwise.
generate_after ==
    IF \A snapshot \in snapshots : snapshot.snapshot_type # BEFORE
    THEN /\ response' = Response("generate_after", FALSE,
               <<"Generate BEFORE snapshot first for this event.">>)
         /\ UNCHANGED <<event, snapshots, concurrency>>
    ELSE generate_after_snapshot(default_min_remaining_ratio,
                                 default_max_remaining_ratio, LifecycleDrawn)

\* A transition request for a state the page of the event offers
\* (allowed_next_states of get_patch_event_detail).
TransitionToAllowed ==
    \E target_state \in
          Range(allowed_transitions(get_state_for_event(current_state_code),
                                    dev_evidence_available)) :
        transition_state(target_state)

\* Any sequence of the six routes that change the event, one at a time.
NextRoutes ==
    \/ generate_before
    \/ generate_after
    \/ compute_evidence
    \/ generate_stage_cr
    \/ generate_prod_cr
    \/ TransitionState

\* From a new event.
Spec == Init /\ [][Next]_vars

\* From any stored event.
SpecStored == InitStored /\ [][Next]_vars

\* The generator alone, from a new event.
SpecGenerator == Init /\ [][NextGenerator]_vars

\* The diff and the reports over any rows.
SpecDiff == InitDiff /\ [][NextDiff]_vars

\* generate_before calls that can overlap.
SpecConcurrent == InitConcurrent /\ [][NextConcurrent]_vars

\* The routes, from a new event.
SpecRoutes == Init /\ [][NextRoutes]_vars

\* The routes, the offered transition being requested again and again.
SpecRoutesFair == Init /\ [][NextRoutes]_vars /\ WF_vars(TransitionToAllowed)

----------------------------------------------------------------------------
(* The claims. *)

\* The chain of the seven states, in order.
Chain == <<DEV_EVIDENCE_CAPTURED, DEV_VERIFIED, STAGE_CR_READY, STAGE_PATCHED,
           PROD_CR_READY, PROD_PATCHED, CLOSED>>

Position(code) == CHOOSE i \in DOMAIN Chain : Chain[i] = code

\* The targets at or after STAGE_CR_READY in the chain.
GuardedTargets == {c \in Codes : Position(c) >= Position(STAGE_CR_READY)}

\* The step is a call of transition_state.
IsTransition == response'.op = "transition_state"

\* What the state machine allows the event as stored.
AllowedNow ==
    allowed_transitions(get_state_for_event(current_state_code),
                        dev_evidence_available)

\* C1: with dev_evidence_available false, allowed_transitions is empty for
\* every state whose successor is STAGE_CR_READY or later, and no transition
\* to STAGE_CR_READY or a later state (PROD_PATCHED -> CLOSED included)
\* succeeds while the flag is false.
C1_GuardBlocksWithoutEvidence ==
    [][(IsTransition /\ ~dev_evidence_available)
         => /\ (/\ current_state_code \in Codes \ {CLOSED}
                /\ Chain[Position(current_state_code) + 1] \in GuardedTargets)
               => AllowedNow = <<>>
            /\ response'.target \in GuardedTargets => ~response'.ok]_vars

\* C2: a transition to CLOSED succeeds exactly when the stored code is
\* PROD_PATCHED and otherwise fails leaving the code as stored, so the code
\* held just before CLOSED is always PROD_PATCHED.
C2_CloseOnlyFromProdPatched ==
    [][/\ (IsTransition /\ response'.target = CLOSED)
            => /\ response'.ok <=> current_state_code = PROD_PATCHED
               /\ response'.ok => current_state_code' = CLOSED
               /\ ~response'.ok => current_state_code' = current_state_code
       /\ (current_state_code' = CLOSED /\ current_state_code # CLOSED)
            => current_state_code = PROD_PATCHED]_vars

\* A close that succeeded.
C2_Witness ==
    /\ response.op = "transition_state"
    /\ response.target = CLOSED
    /\ response.ok
    /\ current_state_code = CLOSED

\* C3: allowed_transitions never has more than one element, and every
\* successful transition moves the code to its immediate successor in the
\* chain: the position never decreases, never skips and never stays.
C3_StrictForwardChain ==
    /\ [](\A state \in Codes : \A flag \in BOOLEAN :
            Len(allowed_transitions(state, flag)) <= 1)
    /\ [][/\ (IsTransition /\ response'.ok)
               => /\ current_state_code \in Codes \ {CLOSED}
                  /\ current_state_code' = Chain[Position(current_state_code) + 1]
          /\ current_state_code' # current_state_code
               => /\ current_state_code \in Codes \ {CLOSED}
                  /\ current_state_code' = Chain[Position(current_state_code) + 1]]_vars

\* A transition that succeeded in the middle of the chain.
C3_Witness ==
    /\ response.op = "transition_state"
    /\ response.ok
    /\ response.target = STAGE_PATCHED
    /\ current_state_code = STAGE_PATCHED

\* C4: once the code is CLOSED every transition fails, whatever the target
\* and the flag, and the code stays CLOSED.
C4_ClosedIsTerminal ==
    [][current_state_code = CLOSED
         => /\ current_state_code' = CLOSED
            /\ IsTransition => ~response'.ok]_vars

\* A transition attempted on a CLOSED event without evidence, and refused.
C4_Witness ==
    /\ current_state_code = CLOSED
    /\ ~dev_evidence_available
    /\ response.op = "transition_state"
    /\ ~response.ok
    /\ response.target = DEV_EVIDENCE_CAPTURED

\* The target is not allowed from the stored event, or it is CLOSED and the
\* stored code is not PROD_PATCHED.
Rejected(target_code) ==
    \/ target_code = CLOSED /\ current_state_code # PROD_PATCHED
    \/ target_code \notin Range(AllowedNow)

\* C5: a rejected transition reports an error and leaves the code, the flag,
\* both summaries and the snapshots as they were, and no on_enter hook runs.
C5_RejectedTransitionChangesNothing ==
    [][(IsTransition /\ Rejected(response'.target))
         => /\ ~response'.ok
            /\ response'.message \in
                  {CannotCloseMessage} \cup
                  {NotAllowedMessage(c, response'.target) : c \in Codes}
            /\ response'.on_enter = <<>>
            /\ UNCHANGED <<event, snapshots>>]_vars

\* A rejected transition on an event that has snapshots and both summaries.
C5_Witness ==
    /\ response.op = "transition_state"
    /\ ~response.ok
    /\ stage_cr_summary # <<>>
    /\ prod_cr_summary # <<>>
    /\ snapshots # {}
    /\ dev_evidence_available

\* The step is a call of the operation named.
IsCall(op) == response'.op = op

\* The event has a snapshot of the type that holds a vulnerability.
HasVulnerabilities(snapshot_type) ==
    \E s \in snapshots :
        s.snapshot_type = snapshot_type /\ s.vulnerabilities # <<>>

MissingSnapshotsMessages ==
    {<<"Cannot compute fixed vulnerabilities: synthetic BEFORE and AFTER snapshots are required.">>,
     <<"Synthetic BEFORE and AFTER snapshots are required to build a STAGE CR summary.">>,
     <<"Synthetic BEFORE and AFTER snapshots are required to build a PROD CR summary.">>}

StateNotReadyMessage ==
    <<"Patch event must be at least in STAGE_PATCHED state before generating a PROD CR summary.">>

\* C6: compute_evidence sets dev_evidence_available to true exactly when the
\* BEFORE and the AFTER vulnerabilities are both non-empty; otherwise it
\* reports the missing-snapshots failure and leaves the flag, the code, both
\* summaries and the snapshots unchanged.  Nothing else changes the flag.
C6_ComputeEvidence ==
    [][/\ IsCall("compute_evidence")
            => IF HasVulnerabilities(BEFORE) /\ HasVulnerabilities(AFTER)
               THEN /\ response'.ok
                    /\ dev_evidence_available' = TRUE
                    /\ UNCHANGED <<current_state_code, stage_cr_summary,
                                   prod_cr_summary, snapshots>>
               ELSE /\ ~response'.ok
                    /\ response'.message \in MissingSnapshotsMessages
                    /\ UNCHANGED <<event, snapshots>>
       /\ dev_evidence_available' # dev_evidence_available
            => /\ IsCall("compute_evidence")
               /\ HasVulnerabilities(BEFORE) /\ HasVulnerabilities(AFTER)]_vars

\* compute_evidence refused on an event whose flag is already true and whose
\* BEFORE snapshot is there but empty.
C6_Witness ==
    /\ response.op = "compute_evidence"
    /\ ~response.ok
    /\ dev_evidence_available
    /\ \E s \in snapshots : s.snapshot_type = BEFORE /\ s.vulnerabilities = <<>>
    /\ HasVulnerabilities(AFTER)

\* C7: generate_stage_cr sets stage_cr_summary only when
\* dev_evidence_available is true and the BEFORE and AFTER vulnerabilities
\* are both non-empty; in every other case it reports a failure and leaves
\* stage_cr_summary and every other field of the event unchanged.
C7_GenerateStageCr ==
    [][/\ IsCall("generate_stage_cr")
            => IF /\ dev_evidence_available
                  /\ HasVulnerabilities(BEFORE) /\ HasVulnerabilities(AFTER)
               THEN /\ response'.ok
                    /\ Len(stage_cr_summary') = 1
                    /\ UNCHANGED <<current_state_code, dev_evidence_available,
                                   prod_cr_summary, snapshots>>
               ELSE /\ ~response'.ok
                    /\ UNCHANGED <<event, snapshots>>
       /\ stage_cr_summary' # stage_cr_summary
            => /\ IsCall("generate_stage_cr")
               /\ dev_evidence_available
               /\ HasVulnerabilities(BEFORE) /\ HasVulnerabilities(AFTER)]_vars

\* generate_stage_cr refused for want of evidence although both snapshots
\* hold vulnerabilities.
C7_Witness ==
    /\ response.op = "generate_stage_cr"
    /\ ~response.ok
    /\ ~dev_evidence_available
    /\ HasVulnerabilities(BEFORE) /\ HasVulnerabilities(AFTER)
    /\ stage_cr_summary = <<>>

\* C8: generate_prod_cr sets prod_cr_summary only when current_state_code is
\* STAGE_PATCHED, PROD_CR_READY, PROD_PATCHED or CLOSED and the BEFORE and
\* AFTER vulnerabilities are both non-empty; a code before STAGE_PATCHED or
\* unrecognized fails as state-not-ready, otherwise the failure is
\* missing-snapshots, and a failure changes nothing.
C8_GenerateProdCr ==
    [][/\ IsCall("generate_prod_cr")
            => IF current_state_code \notin
                     {STAGE_PATCHED, PROD_CR_READY, PROD_PATCHED, CLOSED}
               THEN /\ ~response'.ok
                    /\ response'.message = StateNotReadyMessage
                    /\ UNCHANGED <<event, snapshots>>
               ELSE IF ~(HasVulnerabilities(BEFORE) /\ HasVulnerabilities(AFTER))
               THEN /\ ~response'.ok
                    /\ response'.message \in MissingSnapshotsMessages
                    /\ UNCHANGED <<event, snapshots>>
               ELSE /\ response'.ok
                    /\ Len(prod_cr_summary') = 1
                    /\ UNCHANGED <<current_state_code, dev_evidence_available,
                                   stage_cr_summary, snapshots>>
       /\ prod_cr_summary' # prod_cr_summary
            => /\ IsCall("generate_prod_cr")
               /\ current_state_code \in
                     {STAGE_PATCHED, PROD_CR_READY, PROD_PATCHED, CLOSED}
               /\ HasVulnerabilities(BEFORE) /\ HasVulnerabilities(AFTER)]_vars

\* generate_prod_cr refused as state-not-ready on an event stored in
\* STAGE_CR_READY with evidence and both snapshots holding vulnerabilities.
C8_Witness ==
    /\ response.op = "generate_prod_cr"
    /\ ~response.ok
    /\ response.message = StateNotReadyMessage
    /\ current_state_code = STAGE_CR_READY
    /\ dev_evidence_available
    /\ HasVulnerabilities(BEFORE) /\ HasVulnerabilities(AFTER)
    /\ prod_cr_summary = <<>>

SnapshotsOf(snaps, snapshot_type) ==
    {s \in snaps : s.snapshot_type = snapshot_type}

\* C9: with one operation at a time, the event never holds more than one
\* BEFORE and one AFTER snapshot; a generate_before leaves exactly one BEFORE
\* snapshot, holding exactly that call's vulnerability_count records, and
\* the AFTER snapshot as it was.
C9_OneSnapshotPerType ==
    /\ [](\A snapshot_type \in {BEFORE, AFTER} :
             Cardinality(SnapshotsOf(snapshots, snapshot_type)) <= 1)
    /\ [][IsCall("generate_before")
            => /\ \E s \in snapshots' :
                    /\ SnapshotsOf(snapshots', BEFORE) = {s}
                    /\ Len(s.vulnerabilities) = response'.count
               /\ SnapshotsOf(snapshots', AFTER) = SnapshotsOf(snapshots, AFTER)]_vars

\* BEFORE generated again with one vulnerability after a BEFORE snapshot of
\* two, of which the AFTER snapshot still holds the copies.
C9_Witness ==
    /\ response.op = "generate_before"
    /\ response.count = 1
    /\ \E b \in snapshots :
          /\ SnapshotsOf(snapshots, BEFORE) = {b}
          /\ Len(b.vulnerabilities) = 1
    /\ \E a \in SnapshotsOf(snapshots, AFTER) :
          /\ Len(a.vulnerabilities) = 2
          /\ \A i \in 1..2 : a.vulnerabilities[i].synthetic_id[2] # a.id

\* floor(total * ratio), the ratio in tenths.
FloorOfProduct(total, ratio_tenths) == (total * ratio_tenths) \div 10

\* C10: generate_after on an event whose BEFORE snapshot holds total >= 1
\* vulnerabilities produces an AFTER snapshot whose count lies between
\* max(1, floor(total * min ratio)) and max(that, floor(total * max ratio)),
\* whose synthetic_ids are pairwise distinct, and each of whose records has
\* the synthetic_id and the severity of a BEFORE record.
C10_AfterDerivedFromBefore ==
    [][IsCall("generate_after")
         => \A b \in SnapshotsOf(snapshots, BEFORE) :
              Len(b.vulnerabilities) >= 1 =>
                LET total == Len(b.vulnerabilities)
                    minRemaining ==
                        Max(1, FloorOfProduct(total, response'.ratios[1]))
                    maxRemaining ==
                        Max(minRemaining,
                            FloorOfProduct(total, response'.ratios[2]))
                IN  /\ response'.ok
                    /\ \E a \in snapshots' :
                          /\ SnapshotsOf(snapshots', AFTER) = {a}
                          /\ Len(a.vulnerabilities) \in minRemaining..maxRemaining
                          /\ \A i, j \in DOMAIN a.vulnerabilities :
                                i # j => a.vulnerabilities[i].synthetic_id
                                            # a.vulnerabilities[j].synthetic_id
                          /\ \A i \in DOMAIN a.vulnerabilities :
                                \E k \in DOMAIN b.vulnerabilities :
                                    /\ a.vulnerabilities[i].synthetic_id
                                          = b.vulnerabilities[k].synthetic_id
                                    /\ a.vulnerabilities[i].severity
                                          = b.vulnerabilities[k].severity]_vars

\* The synthetic_ids of a snapshot's vulnerabilities.
IdsOf(s) == {s.vulnerabilities[i].synthetic_id : i \in DOMAIN s.vulnerabilities}

PairwiseDistinctIds(s) ==
    \A i, j \in DOMAIN s.vulnerabilities :
        i # j => s.vulnerabilities[i].synthetic_id
                    # s.vulnerabilities[j].synthetic_id

C12_AnyRatiosComplete ==
    [][IsCall("generate_after")
         => \A b \in SnapshotsOf(snapshots, BEFORE) :
              Len(b.vulnerabilities) >= 1 =>
                LET total == Len(b.vulnerabilities)
                    minRemaining ==
                        min_remaining_of(total, response'.ratios[1])
                    maxRemaining ==
                        max_remaining_of(total, response'.ratios[1],
                                         response'.ratios[2])
                IN  /\ 1 <= minRemaining
                    /\ minRemaining <= maxRemaining
                    /\ response'.ok
                    /\ \A a \in SnapshotsOf(snapshots', AFTER) :
                          Len(a.vulnerabilities) <= total]_vars

\* The positions of before whose synthetic_id is the synthetic_id of no
\* record of after.
NotInAfter(before, after) ==
    {k \in DOMAIN before :
        \A j \in DOMAIN after :
            after[j].synthetic_id # before[k].synthetic_id}

\* fixed is before restricted to the positions of kept, in before's order.
IsSubSequenceAt(fixed, before, kept) ==
    \E f \in [DOMAIN fixed -> DOMAIN before] :
        /\ \A i, j \in DOMAIN fixed : i < j => f[i] < f[j]
        /\ {f[i] : i \in DOMAIN fixed} = kept
        /\ \A i \in DOMAIN fixed : fixed[i] = before[f[i]]

\* C13: for all BEFORE and AFTER record lists, compute_fixed_vulnerabilities
\* is exactly the sub-sequence of before, in before's order, of the records
\* whose synthetic_id does not occur in after: nothing added, dropped,
\* deduplicated or reordered.  The page of the event shows that list.
C13_ComputeFixedIsFilter ==
    \A b \in SnapshotsOf(snapshots, BEFORE) :
    \A a \in SnapshotsOf(snapshots, AFTER) :
        LET before == b.vulnerabilities
            after == a.vulnerabilities
        IN  /\ IsSubSequenceAt(compute_fixed_vulnerabilities(before, after),
                               before, NotInAfter(before, after))
            /\ (/\ response.op = "get_patch_event_detail"
                /\ dev_evidence_available
                /\ before # <<>> /\ after # <<>>)
                  => IsSubSequenceAt(response.fixed_vulnerabilities,
                                     before, NotInAfter(before, after))

\* The page shows two fixed records of one synthetic_id, in BEFORE's order,
\* beside an AFTER snapshot that holds the other synthetic_id.
C13_Witness ==
    /\ response.op = "get_patch_event_detail"
    /\ Len(response.fixed_vulnerabilities) = 2
    /\ response.fixed_vulnerabilities[1].synthetic_id
          = response.fixed_vulnerabilities[2].synthetic_id
    /\ response.fixed_vulnerabilities[1].severity = LOW
    /\ response.fixed_vulnerabilities[2].severity = CRITICAL
    /\ HasVulnerabilities(AFTER)

\* The number of records of the severity in the list.
NumberOf(vulnerabilities, severity) ==
    LET is_of(v) == v.severity = severity
    IN  Len(SelectSeq(vulnerabilities, is_of))

FourKeysSummingToLen(counts, vulnerabilities) ==
    /\ DOMAIN counts = {"CRITICAL", "HIGH", "MEDIUM", "LOW"}
    /\ \A severity \in DOMAIN counts :
          counts[severity] = NumberOf(vulnerabilities, severity)
    /\ counts["CRITICAL"] + counts["HIGH"] + counts["MEDIUM"] + counts["LOW"]
          = Len(vulnerabilities)

\* C14: for every list of records, the empty one included, count_by_severity
\* is a mapping with exactly the keys CRITICAL, HIGH, MEDIUM and LOW, each
\* value the number of records of that severity, the four summing to the
\* length of the list.  The page of the event shows such a mapping.
C14_CountBySeverityFourKeys ==
    /\ \A s \in snapshots :
          /\ FourKeysSummingToLen(count_by_severity(s.vulnerabilities),
                                  s.vulnerabilities)
          /\ FourKeysSummingToLen(count_by_severity(<<>>), <<>>)
    /\ (/\ response.op = "get_patch_event_detail"
        /\ dev_evidence_available
        /\ HasVulnerabilities(BEFORE) /\ HasVulnerabilities(AFTER))
          => FourKeysSummingToLen(response.severity_counts,
                                  response.fixed_vulnerabilities)

\* The page shows the counts of an empty fixed list: four keys, four zeros.
C14_Witness ==
    /\ response.op = "get_patch_event_detail"
    /\ dev_evidence_available
    /\ HasVulnerabilities(BEFORE) /\ HasVulnerabilities(AFTER)
    /\ response.fixed_vulnerabilities = <<>>
    /\ DOMAIN response.severity_counts = Severity
    /\ \A severity \in Severity : response.severity_counts[severity] = 0

\* C15: whenever generate_stage_cr succeeds, the stored stage_cr_summary
\* states as total the number of BEFORE records whose synthetic_id is not in
\* AFTER, and as breakdown, in the order Critical, High, Medium, Low, the
\* number of those records of each severity; the four sum to the total.
C15_StageCrStatesTheDiff ==
    [][(IsCall("generate_stage_cr") /\ response'.ok)
         => \A b \in SnapshotsOf(snapshots, BEFORE) :
            \A a \in SnapshotsOf(snapshots, AFTER) :
               LET before == b.vulnerabilities
                   kept == NotInAfter(before, a.vulnerabilities)
                   n(severity) ==
                       Cardinality({k \in kept : before[k].severity = severity})
                   text == stage_cr_summary'[1]
               IN  /\ Len(stage_cr_summary') = 1
                   /\ text.total_fixed = Cardinality(kept)
                   /\ text.breakdown =
                         <<<<"Critical", n("CRITICAL")>>, <<"High", n("HIGH")>>,
                           <<"Medium", n("MEDIUM")>>, <<"Low", n("LOW")>>>>
                   /\ text.breakdown[1][2] + text.breakdown[2][2]
                         + text.breakdown[3][2] + text.breakdown[4][2]
                         = text.total_fixed]_vars

\* A STAGE report of two fixed vulnerabilities, one critical and one medium,
\* of a BEFORE snapshot that AFTER does not empty.
C15_Witness ==
    /\ response.op = "generate_stage_cr"
    /\ response.ok
    /\ Len(stage_cr_summary) = 1
    /\ stage_cr_summary[1].total_fixed = 2
    /\ stage_cr_summary[1].breakdown[1] = <<"Critical", 1>>
    /\ stage_cr_summary[1].breakdown[3] = <<"Medium", 1>>

\* C16: the generator takes no lock.  When the callers take turns on the
\* event, it never holds two BEFORE snapshots; when they do not, two
\* generate_before calls that both query the BEFORE rows before either
\* commits leave two BEFORE snapshots.
C16_SerializedCallsKeepOneBefore ==
    exclusive_scope => Cardinality(SnapshotsOf(snapshots, BEFORE)) <= 1

\* Two BEFORE snapshots committed by calls that overlapped.
C16_Witness ==
    /\ ~exclusive_scope
    /\ in_flight = Idle
    /\ Cardinality(SnapshotsOf(snapshots, BEFORE)) = 2

\* C17: for an event whose stored code is missing or none of the seven,
\* allowed_transitions is that of DEV_EVIDENCE_CAPTURED, <<DEV_VERIFIED>>;
\* a transition attempt works on the stored code and never repairs it: the
\* close rule refuses CLOSED, a rejected attempt leaves the code as stored,
\* and no attempt succeeds as if the code had been DEV_EVIDENCE_CAPTURED.
C17_UnrecognizedCodeNotRepaired ==
    [][(IsTransition /\ current_state_code \notin Codes)
         => /\ AllowedNow = <<DEV_VERIFIED>>
            /\ response'.target = CLOSED => ~response'.ok
            /\ ~response'.ok => current_state_code' = current_state_code
            /\ ~response'.ok
            /\ current_state_code' = current_state_code]_vars

\* The same call made twice in a row: the operation and its argument are
\* those of the response before.
IsRepeated(op) ==
    /\ IsCall(op)
    /\ response.op = op
    /\ response'.target = response.target

\* C18: compute_evidence, generate_stage_cr, generate_prod_cr and
\* transition_state are idempotent on the event: the same call made twice in
\* a row, nothing in between, leaves the flag, the code and both summaries
\* as the first call left them.
C18_IdempotentOnTheEvent ==
    [][\A op \in {"compute_evidence", "generate_stage_cr",
                  "generate_prod_cr", "transition_state"} :
          IsRepeated(op) => UNCHANGED event]_vars

\* The second of two transitions to DEV_VERIFIED: the first moved the new
\* event there, the second is refused and the event stays there.
C18_Witness ==
    /\ response.op = "transition_state"
    /\ response.target = DEV_VERIFIED
    /\ ~response.ok
    /\ current_state_code = DEV_VERIFIED
    /\ ~dev_evidence_available
    /\ snapshots = {}

\* C19: transition_state is the only operation that changes
\* current_state_code (generate_before, generate_after, compute_evidence,
\* generate_stage_cr and generate_prod_cr leave it, succeeding or failing),
\* and a successful transition changes nothing but the code: the flag, both
\* summaries and the snapshots stay.
C19_OnlyTransitionChangesTheCode ==
    [][/\ ~IsTransition => current_state_code' = current_state_code
       /\ current_state_code' # current_state_code => response'.ok
       /\ IsTransition
            => UNCHANGED <<dev_evidence_available, stage_cr_summary,
                           prod_cr_summary, snapshots>>]_vars

\* A successful transition of an event that has evidence, both summaries and
\* snapshots.
C19_Witness ==
    /\ response.op = "transition_state"
    /\ response.ok
    /\ current_state_code = PROD_CR_READY
    /\ dev_evidence_available
    /\ stage_cr_summary # <<>>
    /\ prod_cr_summary # <<>>
    /\ snapshots # {}

\* C20: every rejected transition reports the code the event has stored and
\* the target it refused, also when the close rule rejects and when the
\* stored code is none of the seven.
C20_RejectionCarriesBothCodes ==
    [][(IsTransition /\ ~response'.ok)
         => /\ Len(response'.message) = 3
            /\ response'.message[2] = current_state_code
            /\ response'.message[3] = response'.target]_vars

\* C21: right after generate_after has derived an AFTER snapshot from a
\* BEFORE snapshot of total records, the fixed records are exactly the BEFORE
\* records that were not sampled: compute_fixed_vulnerabilities(BEFORE, AFTER)
\* has total minus the AFTER count records, and
\* compute_fixed_vulnerabilities(AFTER, BEFORE) is empty.
C21_FixedAreTheUnsampled ==
    [][(IsCall("generate_after") /\ response'.ok /\ HasVulnerabilities(BEFORE))
         => \A b \in SnapshotsOf(snapshots', BEFORE) :
            \A a \in SnapshotsOf(snapshots', AFTER) :
               LET fixed == compute_fixed_vulnerabilities(b.vulnerabilities,
                                                          a.vulnerabilities)
               IN  /\ Len(fixed) = Len(b.vulnerabilities) - Len(a.vulnerabilities)
                   /\ \A i \in DOMAIN fixed : fixed[i].synthetic_id \notin IdsOf(a)
                   /\ IdsOf(a) \cup {fixed[i].synthetic_id : i \in DOMAIN fixed}
                         = IdsOf(b)
                   /\ compute_fixed_vulnerabilities(a.vulnerabilities,
                                                    b.vulnerabilities) = <<>>]_vars

\* An AFTER snapshot of one record derived from a BEFORE snapshot of two.
C21_Witness ==
    /\ response.op = "generate_after"
    /\ response.ok
    /\ \E b \in SnapshotsOf(snapshots, BEFORE) :
       \E a \in SnapshotsOf(snapshots, AFTER) :
          /\ Len(b.vulnerabilities) = 2
          /\ Len(a.vulnerabilities) = 1
          /\ a.vulnerabilities[1].synthetic_id[2] = b.id

\* C22: through the route generate_after an AFTER snapshot is never created
\* or replaced for an event without a BEFORE snapshot: the request is refused
\* with a message and the snapshots stay as they are; so the first AFTER
\* snapshot of an event is created only once a BEFORE snapshot exists.
C22_NoAfterBeforeBefore ==
    /\ [](SnapshotsOf(snapshots, AFTER) # {} => SnapshotsOf(snapshots, BEFORE) # {})
    /\ [][/\ (IsCall("generate_after") /\ SnapshotsOf(snapshots, BEFORE) = {})
               => /\ ~response'.ok
                  /\ response'.message # <<>>
                  /\ UNCHANGED <<event, snapshots>>
          /\ SnapshotsOf(snapshots', AFTER) # SnapshotsOf(snapshots, AFTER)
               => SnapshotsOf(snapshots, BEFORE) # {}]_vars

\* generate_after refused on an event that has no snapshot.
C22_Witness ==
    /\ response.op = "generate_after"
    /\ ~response.ok
    /\ snapshots = {}

\* C23: on every successful transition to a target state the on_enter hook
\* runs exactly once, after current_state_code has become the target, and it
\* is the hook of the state entered, not that of the state left.
C23_HookOfTheStateEntered ==
    [][(IsTransition /\ response'.ok)
         => /\ current_state_code' = response'.target
            /\ Len(response'.on_enter) = 1
            /\ response'.on_enter = <<response'.target>>]_vars

\* C24: from a new event, in every state the six operations reach, the code
\* being STAGE_CR_READY, STAGE_PATCHED, PROD_CR_READY, PROD_PATCHED or CLOSED
\* implies dev_evidence_available; without evidence the event never gets
\* past DEV_VERIFIED.
C24_LateStatesHaveEvidence ==
    /\ current_state_code \in {"STAGE_CR_READY", "STAGE_PATCHED",
                               "PROD_CR_READY", "PROD_PATCHED", "CLOSED"}
          => dev_evidence_available
    /\ ~dev_evidence_available
          => current_state_code \in {"DEV_EVIDENCE_CAPTURED", "DEV_VERIFIED"}

\* The event has just entered STAGE_CR_READY, with evidence.
C24_Witness ==
    /\ response.op = "transition_state"
    /\ response.ok
    /\ current_state_code = STAGE_CR_READY
    /\ dev_evidence_available

\* C25: dev_evidence_available is monotonic: once true, no operation,
\* succeeding or failing, sets it back to false, the regeneration of the
\* snapshots the evidence was computed from included.
C25_EvidenceIsMonotonic ==
    [][dev_evidence_available => dev_evidence_available']_vars

\* The evidence stands although BEFORE has been regenerated, and emptied.
C25_Witness ==
    /\ response.op = "generate_before"
    /\ dev_evidence_available
    /\ ~HasVulnerabilities(BEFORE)
    /\ HasVulnerabilities(AFTER)

\* C26: with the operations one at a time and generate_before called with a
\* count of at least 1, whenever dev_evidence_available is true the event
\* has BEFORE vulnerabilities and AFTER vulnerabilities: snapshots are
\* replaced, never left removed.
C26_EvidenceHasBothSnapshots ==
    dev_evidence_available
        => HasVulnerabilities(BEFORE) /\ HasVulnerabilities(AFTER)

\* The BEFORE snapshot regenerated on an event that has evidence.
C26_Witness ==
    /\ response.op = "generate_before"
    /\ dev_evidence_available
    /\ HasVulnerabilities(BEFORE)
    /\ \E b \in SnapshotsOf(snapshots, BEFORE) :
       \E a \in SnapshotsOf(snapshots, AFTER) : b.id > a.id

\* C27: through the routes, one at a time, whenever the event has a BEFORE
\* and an AFTER snapshot, every AFTER synthetic_id is the synthetic_id of a
\* record of the current BEFORE snapshot, so the fixed list has |BEFORE| -
\* |AFTER| records; also when BEFORE is regenerated after AFTER.
C27_AfterIdsAreBeforeIds ==
    \A b \in SnapshotsOf(snapshots, BEFORE) :
    \A a \in SnapshotsOf(snapshots, AFTER) :
        /\ IdsOf(a) \subseteq IdsOf(b)
        /\ Len(compute_fixed_vulnerabilities(b.vulnerabilities, a.vulnerabilities))
              = Len(b.vulnerabilities) - Len(a.vulnerabilities)

\* C28: once evidence exists no state but CLOSED is a dead end: each has
\* exactly one allowed transition, and with the offered transition requested
\* again and again the event reaches CLOSED; from a new event
\* generate_before, generate_after, compute_evidence and the six transitions
\* of the chain in order all succeed and end in CLOSED.
C28_EvidenceLeadsToClosed ==
    /\ [](\A state \in Codes \ {CLOSED} :
             Len(allowed_transitions(state, TRUE)) = 1)
    /\ []((dev_evidence_available /\ current_state_code # CLOSED)
             => Len(AllowedNow) = 1)
    /\ (dev_evidence_available ~> current_state_code = CLOSED)

\* CLOSED entered by an event that has evidence and no report yet.
C28_Witness ==
    /\ response.op = "transition_state"
    /\ response.ok
    /\ response.target = CLOSED
    /\ current_state_code = CLOSED
    /\ dev_evidence_available
    /\ stage_cr_summary = <<>>
    /\ prod_cr_summary = <<>>

====
